---- MODULE Spec2Model ----
(***************************************************************************)
(* Model of src/transaction/get.rs: TransactionInfoClient, a read-only     *)
(* client of an Arweave gateway (get_price, get, get_status), its data     *)
(* model and the way each method maps the transport's result.              *)
(*                                                                         *)
(* Each method is an async fn with a single await.  A call is modelled in  *)
(* two steps: Call_* runs the method up to the await (the request is       *)
(* handed to the transport), Await_* resumes it with the transport's       *)
(* result and runs it to its end: a return or a panic.  A panic unwinds    *)
(* the call that raised it.                                                *)
(***************************************************************************)
EXTENDS Integers, Sequences, FiniteSets, TLC

(***************************************************************************)
(* Bounds of the model.                                                    *)
(***************************************************************************)
\* call sites sharing the one client
NumCallers == 2
\* calls started in one behaviour
MaxCalls == 3

Callers == 1..NumCallers

(***************************************************************************)
(* State.                                                                  *)
(***************************************************************************)
VARIABLES
    url,       \* the base URL the client was built with
    pc,        \* per caller: "idle", "awaiting", "returned" or "panicked"
    op,        \* per caller: the method it called
    arg,       \* per caller: the argument it passed
    sent,      \* per caller: the requests its current call handed to the transport
    reply,     \* per caller: what the gateway answered to its request
    result,    \* per caller: Return(v) or Panic(m) once the call ended
    started,   \* calls started so far
    outbound   \* requests handed to the transport so far, by all calls

(***************************************************************************)
(* Rust values: Option, Result, and the outcome of running a method.       *)
(***************************************************************************)
None == [none |-> TRUE]
Some(v) == [some |-> v]
Ok(v) == [ok |-> v]
Err(e) == [err |-> e]
IsOk(r) == "ok" \in DOMAIN r
IsErr(r) == "err" \in DOMAIN r

\* the method ran to its end and handed this value to the caller
Return(v) == [return |-> v]
\* the method panicked with this message; the caller gets no value
Panic(m) == [panic |-> m]
Returned(o) == "return" \in DOMAIN o
Panicked(o) == "panic" \in DOMAIN o

(***************************************************************************)
(* Data model.                                                             *)
(***************************************************************************)
Tag(n, v) == [name |-> n, value |-> v]

TransactionData(id, tags, data) ==
    [format |-> 2, id |-> id, last_tx |-> "last_tx", owner |-> "owner",
     tags |-> tags, target |-> "target", quantity |-> "quantity",
     data |-> data, reward |-> "reward", signature |-> "signature",
     data_size |-> "data_size", data_root |-> "data_root"]

TransactionConfirmedData(hash, height, confirmations) ==
    [block_indep_hash |-> hash, block_height |-> height,
     number_of_confirmations |-> confirmations]

TransactionStatusResponse(status, confirmed) ==
    [status |-> status, confirmed |-> confirmed]

\* ArweaveError::TransactionInfoError(String), the one variant get.rs builds
TransactionInfoError(msg) == [variant |-> "TransactionInfoError", msg |-> msg]

(***************************************************************************)
(* JSON, as serde_json writes and reads the derived Serialize/Deserialize  *)
(* of the data model: an object is the sequence of its members in field    *)
(* order, a Vec is an array, a String a string, an integer a number and    *)
(* Option::None is null.  Reading looks each field up by its key.          *)
(***************************************************************************)
JStr(s) == [str |-> s]
JNum(n) == [num |-> n]
JArr(a) == [arr |-> a]
JObj(members) == [obj |-> members]
JNull == [null |-> TRUE]
Member(k, v) == [key |-> k, val |-> v]
Field(j, k) ==
    LET i == CHOOSE n \in 1..Len(j.obj) :
                 /\ j.obj[n].key = k
                 /\ \A m \in 1..(n - 1) : j.obj[m].key # k
    IN j.obj[i].val

to_json_Tag(t) ==
    JObj(<<Member("name", JStr(t.name)), Member("value", JStr(t.value))>>)
from_json_Tag(j) ==
    Tag(Field(j, "name").str, Field(j, "value").str)

to_json_TransactionData(t) ==
    JObj(<<Member("format", JNum(t.format)),
           Member("id", JStr(t.id)),
           Member("last_tx", JStr(t.last_tx)),
           Member("owner", JStr(t.owner)),
           Member("tags", JArr([i \in 1..Len(t.tags) |-> to_json_Tag(t.tags[i])])),
           Member("target", JStr(t.target)),
           Member("quantity", JStr(t.quantity)),
           Member("data", JArr([i \in 1..Len(t.data) |-> JNum(t.data[i])])),
           Member("reward", JStr(t.reward)),
           Member("signature", JStr(t.signature)),
           Member("data_size", JStr(t.data_size)),
           Member("data_root", JStr(t.data_root))>>)
from_json_TransactionData(j) ==
    [format |-> Field(j, "format").num,
     id |-> Field(j, "id").str,
     last_tx |-> Field(j, "last_tx").str,
     owner |-> Field(j, "owner").str,
     tags |-> LET a == Field(j, "tags").arr
              IN [i \in 1..Len(a) |-> from_json_Tag(a[i])],
     target |-> Field(j, "target").str,
     quantity |-> Field(j, "quantity").str,
     data |-> LET a == Field(j, "data").arr
              IN [i \in 1..Len(a) |-> a[i].num],
     reward |-> Field(j, "reward").str,
     signature |-> Field(j, "signature").str,
     data_size |-> Field(j, "data_size").str,
     data_root |-> Field(j, "data_root").str]

to_json_TransactionConfirmedData(c) ==
    JObj(<<Member("block_indep_hash", JStr(c.block_indep_hash)),
           Member("block_height", JNum(c.block_height)),
           Member("number_of_confirmations", JNum(c.number_of_confirmations))>>)
from_json_TransactionConfirmedData(j) ==
    [block_indep_hash |-> Field(j, "block_indep_hash").str,
     block_height |-> Field(j, "block_height").num,
     number_of_confirmations |-> Field(j, "number_of_confirmations").num]

to_json_TransactionStatusResponse(s) ==
    JObj(<<Member("status", JNum(s.status)),
           Member("confirmed",
                  IF s.confirmed = None
                  THEN JNull
                  ELSE to_json_TransactionConfirmedData(s.confirmed.some))>>)
from_json_TransactionStatusResponse(j) ==
    [status |-> Field(j, "status").num,
     confirmed |->
        IF "null" \in DOMAIN Field(j, "confirmed")
        THEN None
        ELSE Some(from_json_TransactionConfirmedData(Field(j, "confirmed")))]

(***************************************************************************)
(* Inputs: the arguments callers pass and what the gateway answers.        *)
(***************************************************************************)
BaseUrl == "http://gateway"
ByteSizes == {"156", "0"}
TxIds == {"arweave_tx_id", "unknown_tx"}

\* bodies of GET /price: the bytes on the wire and the text they spell
PriceBodies ==
    {[text |-> "123123", bytes |-> <<"1", "2", "3", "1", "2", "3">>],
     [text |-> "0123", bytes |-> <<"0", "1", "2", "3">>],
     [text |-> "18446744073709551616999",
      bytes |-> <<"1", "8", "4", "4", "6", "7", "4", "4", "0", "7", "3", "7",
                  "0", "9", "5", "5", "1", "6", "1", "6", "9", "9", "9">>]}

TagLists ==
    {<<Tag("name", "value")>>,
     <<Tag("a", "1"), Tag("a", "2"), Tag("b", "1")>>,
     <<Tag("b", "1"), Tag("a", "2"), Tag("a", "1")>>}
DataBytes == {<<>>, <<0, 255, 0>>}
TxFixtures ==
    {TransactionData("arweave_tx_id", tags, data) :
        tags \in TagLists, data \in DataBytes}

StatusFixtures ==
    {TransactionStatusResponse(1, Some(TransactionConfirmedData("h", 10, 10))),
     TransactionStatusResponse(200, Some(TransactionConfirmedData("block_indep_hash", 11, 1))),
     TransactionStatusResponse(202, None)}

\* server-reported error payloads, as decoded into ArweaveError
ErrorPayloads == {TransactionInfoError("Not Found"), TransactionInfoError("Pending")}

\* pretend::Error values of a request that did not complete or was answered
\* with a non-success status
TransportFailures ==
    {[kind |-> "Request", detail |-> "connection refused"],
     [kind |-> "Status", detail |-> "404"],
     [kind |-> "Status", detail |-> "500"]}
\* pretend::Error of a body that decodes as neither schema
BodyFailure == [kind |-> "Body", detail |-> "missing field"]

\* What the gateway does with one request:
\*   [success |-> p]    success status, the body is p in the success shape
\*   [error |-> e]      the body is the server-error envelope e
\*   [malformed |-> b]  the body b matches neither schema
\*   [fail |-> f]       the request does not complete, or a non-success status
PriceReplies ==
    {[success |-> b] : b \in PriceBodies} \cup {[fail |-> f] : f \in TransportFailures}
EnvelopeReplies ==
    {[error |-> e] : e \in ErrorPayloads}
        \cup {[malformed |-> "{}"]}
        \cup {[fail |-> f] : f \in TransportFailures}
TxReplies == {[success |-> t] : t \in TxFixtures} \cup EnvelopeReplies
StatusReplies == {[success |-> s] : s \in StatusFixtures} \cup EnvelopeReplies

(***************************************************************************)
(* The transport (trait TransactionInfoFetch): the request each method     *)
(* sends, and the pretend::Result it yields for the gateway's reply.       *)
(***************************************************************************)
JsonOk(v) == [JsonResultOk |-> v]
JsonErr(e) == [JsonResultErr |-> e]

RECURSIVE Text(_)
\* the String a body's bytes spell
Text(bytes) ==
    IF bytes = <<>> THEN "" ELSE Head(bytes) \o Text(Tail(bytes))

Get(base, path) == [method |-> "GET", url |-> base \o path]

tx_get_price_request(base, byte_size) == Get(base, "/price/" \o byte_size)
tx_get_request(base, id) == Get(base, "/tx/" \o id)
\* mutant: the status request goes to the transaction's path
tx_status_request_tx_path(base, id) == Get(base, "/tx/" \o id)
tx_status_request(base, id) == Get(base, "/tx/" \o id \o "/status")

RECURSIVE StripLeadingZeros(_)
StripLeadingZeros(bytes) ==
    IF Len(bytes) > 1 /\ Head(bytes) = "0"
    THEN StripLeadingZeros(Tail(bytes))
    ELSE bytes
\* mutant: the body is parsed as a number and printed again
tx_get_price_parsed(g) ==
    IF "success" \in DOMAIN g
    THEN Ok(Text(StripLeadingZeros(g.success.bytes)))
    ELSE Err(g.fail)

\* pretend::Result<String>
tx_get_price(g) ==
    IF "success" \in DOMAIN g THEN Ok(Text(g.success.bytes)) ELSE Err(g.fail)

\* pretend::Result<JsonResult<T, ArweaveError>>; decoded is the T read from
\* the body of a reply in the success shape
JsonResultOf(g, decoded) ==
    IF "success" \in DOMAIN g THEN Ok(JsonOk(decoded))
    ELSE IF "error" \in DOMAIN g THEN Ok(JsonErr(g.error))
    ELSE IF "malformed" \in DOMAIN g THEN Err(BodyFailure)
    ELSE Err(g.fail)

tx_get(g) ==
    JsonResultOf(g, from_json_TransactionData(to_json_TransactionData(g.success)))
tx_status(g) ==
    JsonResultOf(g, from_json_TransactionStatusResponse(
                        to_json_TransactionStatusResponse(g.success)))

\* Display and Debug of pretend::Error
to_string(e) ==
    IF e.kind = "Status" THEN "HTTP " \o e.detail
    ELSE IF e.kind = "Request" THEN "Failed to execute request"
    ELSE "Failed to read response body"
debug(e) == e.kind \o "(" \o e.detail \o ")"

(***************************************************************************)
(* TransactionInfoClient: what each method does with the transport's       *)
(* result r once the await completes.                                      *)
(***************************************************************************)
new(base) == base

\* mutant: a transport failure is unwrapped, as get_status does
get_price_expect(r) ==
    IF IsOk(r)
    THEN Return(Ok(r.ok))
    ELSE Panic([msg |-> "Error getting price: {:?}", arg |-> debug(r.err)])
\* mutant: the client counts its calls and answers from the count
get_price_counting(r) ==
    IF started > 1
    THEN Return(Err(TransactionInfoError("too many requests")))
    ELSE IF IsOk(r)
         THEN Return(Ok(r.ok))
         ELSE Return(Err(TransactionInfoError(to_string(r.err))))
get_price(r) ==
    IF IsOk(r)
    THEN Return(Ok(r.ok))
    ELSE Return(Err(TransactionInfoError(to_string(r.err))))

RECURSIVE DedupByName(_)
DedupByName(tags) ==
    IF tags = <<>> THEN <<>>
    ELSE LET rest == DedupByName(SubSeq(tags, 1, Len(tags) - 1))
             last == tags[Len(tags)]
         IN IF \E i \in 1..Len(rest) : rest[i].name = last.name
            THEN rest
            ELSE Append(rest, last)
\* mutant: tags with a name seen before are dropped
get_dedup_tags(r) ==
    IF IsOk(r)
    THEN IF "JsonResultOk" \in DOMAIN r.ok
         THEN Return(Ok([r.ok.JsonResultOk EXCEPT !.tags = DedupByName(@)]))
         ELSE Panic([msg |-> "Error parsing info {}", arg |-> r.ok.JsonResultErr])
    ELSE Return(Err(TransactionInfoError(to_string(r.err))))

get(r) ==
    IF IsOk(r)
    THEN IF "JsonResultOk" \in DOMAIN r.ok
         THEN Return(Ok(r.ok.JsonResultOk))
         ELSE Panic([msg |-> "Error parsing info {}", arg |-> r.ok.JsonResultErr])
    ELSE Return(Err(TransactionInfoError(to_string(r.err))))

\* mutant: a status without confirmed is taken for a failure
get_status_needs_confirmed(r) ==
    IF IsErr(r)
    THEN Panic([msg |-> "Error getting tx status: {:?}", arg |-> debug(r.err)])
    ELSE IF "JsonResultOk" \in DOMAIN r.ok
         THEN IF r.ok.JsonResultOk.confirmed = None
              THEN Return(Err(TransactionInfoError("not confirmed")))
              ELSE Return(Ok(r.ok.JsonResultOk))
         ELSE Panic([msg |-> "not yet implemented"])
get_status(r) ==
    IF IsErr(r)
    THEN Panic([msg |-> "Error getting tx status: {:?}", arg |-> debug(r.err)])
    ELSE IF "JsonResultOk" \in DOMAIN r.ok
         THEN Return(Ok(r.ok.JsonResultOk))
         ELSE Panic([msg |-> "not yet implemented"])

(***************************************************************************)
(* Construction, and one action per step of each method.                   *)
(***************************************************************************)
vars == <<url, pc, op, arg, sent, reply, result, started, outbound>>

Init ==
    /\ url = new(BaseUrl)
    /\ pc = [c \in Callers |-> "idle"]
    /\ op = [c \in Callers |-> "none"]
    /\ arg = [c \in Callers |-> ""]
    /\ sent = [c \in Callers |-> <<>>]
    /\ reply = [c \in Callers |-> None]
    /\ result = [c \in Callers |-> None]
    /\ started = 0
    /\ outbound = 0

\* the method runs up to its await: the requests go to the transport
Begin(c, method, a, requests) ==
    /\ pc' = [pc EXCEPT ![c] = "awaiting"]
    /\ op' = [op EXCEPT ![c] = method]
    /\ arg' = [arg EXCEPT ![c] = a]
    /\ sent' = [sent EXCEPT ![c] = requests]
    /\ started' = started + 1
    /\ outbound' = outbound + Len(requests)
    /\ UNCHANGED <<url, reply, result>>

\* the await completed with the gateway's reply g and the method ends with
\* outcome o
End(c, g, o) ==
    /\ reply' = [reply EXCEPT ![c] = g]
    /\ result' = [result EXCEPT ![c] = o]
    /\ pc' = [pc EXCEPT ![c] = IF Returned(o) THEN "returned" ELSE "panicked"]
    /\ UNCHANGED <<url, op, arg, sent, started, outbound>>

Call_get_price(c) ==
    /\ pc[c] = "idle"
    /\ started < MaxCalls
    /\ \E byte_size \in ByteSizes :
           Begin(c, "get_price", byte_size, <<tx_get_price_request(url, byte_size)>>)
Await_get_price(c) ==
    /\ pc[c] = "awaiting"
    /\ op[c] = "get_price"
    /\ \E g \in PriceReplies : End(c, g, get_price(tx_get_price(g)))

Call_get(c) ==
    /\ pc[c] = "idle"
    /\ started < MaxCalls
    /\ \E id \in TxIds : Begin(c, "get", id, <<tx_get_request(url, id)>>)
Await_get(c) ==
    /\ pc[c] = "awaiting"
    /\ op[c] = "get"
    /\ \E g \in TxReplies : End(c, g, get(tx_get(g)))

Call_get_status(c) ==
    /\ pc[c] = "idle"
    /\ started < MaxCalls
    /\ \E id \in TxIds : Begin(c, "get_status", id, <<tx_status_request(url, id)>>)
Await_get_status(c) ==
    /\ pc[c] = "awaiting"
    /\ op[c] = "get_status"
    /\ \E g \in StatusReplies : End(c, g, get_status(tx_status(g)))

\* the caller is done with the outcome of its call and may call again
Finish(c) ==
    /\ pc[c] \in {"returned", "panicked"}
    /\ pc' = [pc EXCEPT ![c] = "idle"]
    /\ op' = [op EXCEPT ![c] = "none"]
    /\ arg' = [arg EXCEPT ![c] = ""]
    /\ sent' = [sent EXCEPT ![c] = <<>>]
    /\ reply' = [reply EXCEPT ![c] = None]
    /\ result' = [result EXCEPT ![c] = None]
    /\ UNCHANGED <<url, started, outbound>>

Next ==
    \E c \in Callers :
        \/ Call_get_price(c)
        \/ Await_get_price(c)
        \/ Call_get(c)
        \/ Await_get(c)
        \/ Call_get_status(c)
        \/ Await_get_status(c)
        \/ Finish(c)

Spec == Init /\ [][Next]_vars

Ended(c) == pc[c] \in {"returned", "panicked"}

(***************************************************************************)
(* Properties.                                                             *)
(***************************************************************************)
Failed(c) == Ended(c) /\ "fail" \in DOMAIN reply[c]
Succeeded(c) == Ended(c) /\ "success" \in DOMAIN reply[c]
ServerError(c) == Ended(c) /\ "error" \in DOMAIN reply[c]
Malformed(c) == Ended(c) /\ "malformed" \in DOMAIN reply[c]

\* C1: whenever a call of get ends after the gateway answered with the
\* server-error envelope, the call returned (it did not panic) and the value
\* it returned is an error carrying the server's payload.
C1_GetReturnsServerError ==
    \A c \in Callers :
        (ServerError(c) /\ op[c] = "get") =>
            /\ pc[c] = "returned"
            /\ Returned(result[c])
            /\ result[c].return = Err(reply[c].error)

\* C2: whenever a call of get_status ends after the gateway answered with the
\* server-error envelope, the call returned an error value to its caller; it
\* was not terminated.
C2_GetStatusReturnsServerError ==
    \A c \in Callers :
        (ServerError(c) /\ op[c] = "get_status") =>
            /\ pc[c] = "returned"
            /\ Returned(result[c])
            /\ IsErr(result[c].return)

\* C3: whenever a call of get_status ends after its request failed in the
\* transport, the call returned an error whose message renders the failure;
\* it did not panic.
C3_GetStatusReturnsTransportError ==
    \A c \in Callers :
        (Failed(c) /\ op[c] = "get_status") =>
            /\ pc[c] = "returned"
            /\ Returned(result[c])
            /\ result[c].return = Err(TransactionInfoError(to_string(reply[c].fail)))

C5_MalformedIsItsOwnError ==
    \A c \in Callers :
        (Malformed(c) /\ op[c] \in {"get", "get_status"}) =>
            /\ pc[c] = "returned"
            /\ Returned(result[c])
            /\ IsErr(result[c].return)
            /\ result[c].return.err.variant # "TransactionInfoError"
            /\ result[c].return.err \notin ErrorPayloads

\* C6: whenever a call of get_price ends after a successful request, it
\* returned the text of the response body, character for character (leading
\* zeros and digits beyond 64 bits included).
C6_PriceIsBodyVerbatim ==
    \A c \in Callers :
        (Succeeded(c) /\ op[c] = "get_price") =>
            result[c] = Return(Ok(reply[c].success.text))
C6_Witness ==
    \E c, d \in Callers :
        /\ Succeeded(c) /\ op[c] = "get_price"
        /\ Succeeded(d) /\ op[d] = "get_price"
        /\ result[c] = Return(Ok("0123"))
        /\ result[d] = Return(Ok("18446744073709551616999"))

\* C7: whenever a call of get ends after the gateway answered with a
\* TransactionData in the success shape, it returned that TransactionData:
\* every field equal, the tags in the same order with repeated names kept,
\* the data bytes unchanged.
C7_GetReturnsTransaction ==
    \A c \in Callers :
        (Succeeded(c) /\ op[c] = "get") =>
            /\ result[c] = Return(Ok(reply[c].success))
            /\ result[c].return.ok.tags = reply[c].success.tags
            /\ result[c].return.ok.data = reply[c].success.data
C7_Witness ==
    \E c \in Callers :
        /\ Succeeded(c) /\ op[c] = "get"
        /\ pc[c] = "returned"
        /\ reply[c].success.tags = <<Tag("a", "1"), Tag("a", "2"), Tag("b", "1")>>
        /\ reply[c].success.data = <<0, 255, 0>>
        /\ Len(result[c].return.ok.tags) = 3

\* C8: whenever a call of get_status ends after the gateway answered with a
\* TransactionStatusResponse in the success shape, it returned a success
\* value with the same status and confirmed; confirmed is absent in the
\* result exactly when it is absent in the response.
C8_GetStatusReturnsStatus ==
    \A c \in Callers :
        (Succeeded(c) /\ op[c] = "get_status") =>
            /\ pc[c] = "returned"
            /\ IsOk(result[c].return)
            /\ result[c].return.ok.status = reply[c].success.status
            /\ result[c].return.ok.confirmed = reply[c].success.confirmed
            /\ (result[c].return.ok.confirmed = None) <=> (reply[c].success.confirmed = None)
C8_Witness ==
    \E c, d \in Callers :
        /\ Succeeded(c) /\ op[c] = "get_status"
        /\ Succeeded(d) /\ op[d] = "get_status"
        /\ reply[c].success.confirmed = None
        /\ reply[d].success.confirmed # None
        /\ IsOk(result[c].return) /\ IsOk(result[d].return)

\* the one request a call of method with argument a sends
ExpectedRequest(method, a) ==
    [method |-> "GET",
     url |-> IF method = "get_price" THEN BaseUrl \o "/price/" \o a
             ELSE IF method = "get" THEN BaseUrl \o "/tx/" \o a
             ELSE BaseUrl \o "/tx/" \o a \o "/status"]

\* C9: every call that has started has handed exactly one request to the
\* transport, a GET of the method's path with the argument in it as passed;
\* this stays so after the call ended, in failure too, and the client sent
\* no request besides the one of each call started.
C9_OneRequestPerCall ==
    /\ \A c \in Callers :
          pc[c] # "idle" => sent[c] = <<ExpectedRequest(op[c], arg[c])>>
    /\ outbound = started
C9_Witness ==
    \E c, d \in Callers :
        /\ c # d
        /\ Failed(c)
        /\ pc[d] = "awaiting"
        /\ op[d] = "get_status"
        /\ started = MaxCalls
        /\ outbound = MaxCalls

====
